---- MODULE Spec2Model ----
(***************************************************************************)
(* A model of the transcript server of src/main.py: the identifier         *)
(* normalizer extract_video_id, and the three handlers get_transcript      *)
(* (POST /transcript), get_transcript_by_id (GET /transcript/{video_id})   *)
(* and list_available_transcripts (GET /list/{video_id}).                  *)
(*                                                                         *)
(* Python strings are TLA+ strings; a character of s is SubSeq(s, i, i).   *)
(* The transcript library (YouTubeTranscriptApi, TextFormatter,            *)
(* JSONFormatter) is the environment: what fetch and list return is chosen *)
(* nondeterministically when a call completes.                             *)
(***************************************************************************)
EXTENDS Integers, Sequences, FiniteSets, TLC

VARIABLES
    arg,      \* SpecExtract: the string handed to extract_video_id
    shape,    \* SpecExtract: how arg was built (kind of URL, the id put in it)
    ret,      \* SpecExtract: what extract_video_id returned, NotReturned before
    pc,       \* pc[r]: "idle", "calling" (blocked in the library call), "done"
    req,      \* req[r]: the request as the framework hands it to the handler
    call,     \* call[r]: the arguments of the library call made for r
    ncalls,   \* ncalls[r]: number of library calls made while handling r
    answer,   \* answer[r]: what the library returned (or raised) to r
    resp      \* resp[r]: the responses sent for r, in order

vars == <<arg, shape, ret, pc, req, call, ncalls, answer, resp>>

-----------------------------------------------------------------------------
(* Bounds *)

\* number of requests that can be in flight at once
NumReq == 2
\* number of query parameters before, and after, the v parameter of a watch URL
MaxParams == 1
\* number of tokens of a free-form input of extract_video_id
MaxTokens == 3
\* number of segments of a fetched transcript
MaxSegments == 2
\* number of tracks of an enumerated transcript list
MaxTracks == 2

-----------------------------------------------------------------------------
(* Strings *)

CharAt(s, i) == SubSeq(s, i, i)

\* s[i:].startswith(lit), positions from 1
StartsAt(s, i, lit) ==
    /\ i + Len(lit) - 1 <= Len(s)
    /\ SubSeq(s, i, i + Len(lit) - 1) = lit

\* the concatenation of a sequence of strings
RECURSIVE Concat(_)
Concat(ss) == IF ss = <<>> THEN "" ELSE Head(ss) \o Concat(Tail(ss))

\* sep.join(ss)
RECURSIVE Join(_, _)
Join(ss, sep) ==
    IF ss = <<>> THEN ""
    ELSE IF Len(ss) = 1 THEN Head(ss)
    ELSE Head(ss) \o sep \o Join(Tail(ss), sep)

-----------------------------------------------------------------------------
(* extract_video_id, src/main.py:130-144 *)

NoMatch == [matched |-> FALSE]

\* the characters the class [^&\n?#] excludes
StopChars == {"&", "\n", "?", "#"}

\* the literal alternatives of the first pattern, in the order of the pattern
Prefixes1 == <<"youtube.com/watch?v=", "youtu.be/", "youtube.com/embed/">>

\* the literal head of the second pattern
Prefix2 == "youtube.com/watch?"

\* ([^&\n?#]+) at position k: the greedy capture, or NoMatch when the class
\* matches no character there
Group(s, k) ==
    IF k > Len(s) \/ CharAt(s, k) \in StopChars THEN NoMatch
    ELSE LET e == CHOOSE e \in k..Len(s) :
                    /\ \A m \in k..e : CharAt(s, m) \notin StopChars
                    /\ (e = Len(s) \/ CharAt(s, e + 1) \in StopChars)
         IN  [matched |-> TRUE, group1 |-> SubSeq(s, k, e)]

\* the first pattern tried at position i: the alternatives in order
MatchAt1(s, i) ==
    LET alts == {a \in 1..Len(Prefixes1) :
                    /\ StartsAt(s, i, Prefixes1[a])
                    /\ Group(s, i + Len(Prefixes1[a])).matched}
    IN  IF alts = {} THEN NoMatch
        ELSE LET a == CHOOSE a \in alts : \A b \in alts : a <= b
             IN  Group(s, i + Len(Prefixes1[a]))

\* the second pattern tried at position i: .* is greedy and does not cross a
\* newline, so the last "v=" of the line that a capture can follow is taken
MatchAt2(s, i) ==
    IF ~StartsAt(s, i, Prefix2) THEN NoMatch
    ELSE LET from == i + Len(Prefix2)
             js == {j \in from..Len(s) :
                      /\ \A m \in from..(j - 1) : CharAt(s, m) # "\n"
                      /\ StartsAt(s, j, "v=")
                      /\ Group(s, j + 2).matched}
         IN  IF js = {} THEN NoMatch
             ELSE LET j == CHOOSE j \in js : \A k \in js : k <= j
                  IN  Group(s, j + 2)

\* re.search: the match at the leftmost position where the pattern matches
Search1(s) ==
    LET is == {i \in 1..Len(s) : MatchAt1(s, i).matched}
    IN  IF is = {} THEN NoMatch
        ELSE MatchAt1(s, CHOOSE i \in is : \A k \in is : i <= k)

Search2(s) ==
    LET is == {i \in 1..Len(s) : MatchAt2(s, i).matched}
    IN  IF is = {} THEN NoMatch
        ELSE MatchAt2(s, CHOOSE i \in is : \A k \in is : i <= k)

\* extract_video_id with the fallback lost: nothing is returned for an input
\* no pattern matches
extract_video_id_no_fallback(url_or_id) ==
    IF Search1(url_or_id).matched THEN Search1(url_or_id).group1
    ELSE IF Search2(url_or_id).matched THEN Search2(url_or_id).group1
    ELSE ""

extract_video_id(url_or_id) ==
    IF Search1(url_or_id).matched THEN Search1(url_or_id).group1
    ELSE IF Search2(url_or_id).matched THEN Search2(url_or_id).group1
    ELSE url_or_id

-----------------------------------------------------------------------------
(* The inputs of extract_video_id *)

NotReturned == [returned |-> FALSE]

Schemes == {"", "https://www."}
Ids == {"dQw4w9WgXcQ", "a-B_1"}

\* query parameters other than v
Params == {"list=PL", "t=30", "pv=2"}

\* what may follow the query string of a watch URL
WatchTrailers == {"", "#top", "\nnext"}

\* what may follow the path token of a short link or an embed link
PathTrailers == {"", "?t=30", "&t=30", "#top", "\nnext"}

\* the pieces free-form inputs are made of
Tokens == {"dQw4w9WgXcQ", "youtu.be/", "youtube.com/watch?", "youtube.com/embed/",
           "v=", "&", "?", "#", "\n", "x"}

SeqsUpTo(S, n) == UNION {[1..k -> S] : k \in 0..n}

\* a watch-page URL whose query string carries v=id between the parameters
\* before and the parameters after
WatchUrl(scheme, before, id, after, trailer) ==
    scheme \o "youtube.com/watch?"
           \o Join(before \o <<"v=" \o id>> \o after, "&") \o trailer

ShortUrl(scheme, id, trailer) == scheme \o "youtu.be/" \o id \o trailer

EmbedUrl(scheme, id, trailer) == scheme \o "youtube.com/embed/" \o id \o trailer

\* the pairs <<input, how it was built>>
ExtractInputs ==
    {<<WatchUrl(s, b, i, a, t), [kind |-> "watch", id |-> i]>> :
        s \in Schemes, b \in SeqsUpTo(Params, MaxParams), i \in Ids,
        a \in SeqsUpTo(Params, MaxParams), t \in WatchTrailers}
    \cup {<<ShortUrl(s, i, t), [kind |-> "short", id |-> i]>> :
            s \in Schemes, i \in Ids, t \in PathTrailers}
    \cup {<<EmbedUrl(s, i, t), [kind |-> "embed", id |-> i]>> :
            s \in Schemes, i \in Ids, t \in PathTrailers}
    \cup {<<Concat(ts), [kind |-> "free", id |-> ""]>> :
            ts \in SeqsUpTo(Tokens, MaxTokens)}

-----------------------------------------------------------------------------
(* Requests *)

Req == 1..NumReq

\* an optional field or query parameter the caller left out, or gave
Absent == [given |-> FALSE]
Given(v) == [given |-> TRUE, value |-> v]

\* Python values whose type the response model looks at: a str, and the
\* library's translation-language object
PyStr(s) == [type |-> "str", value |-> s]
TranslationLanguage(language, language_code) ==
    [type |-> "_TranslationLanguage", language |-> language,
     language_code |-> language_code]

NoReq == [endpoint |-> "none"]
NoCall == [op |-> "none"]
NoAnswer == [answered |-> FALSE]

\* The fixed phrases of the two HTTPException details (src/main.py:245 and
\* src/main.py:362). The source's phrases are Korean text, which a TLA+ string
\* cannot hold; these ASCII strings stand for them.
FETCH_FAILED == "<failed to fetch the transcript>"
LIST_FAILED == "<failed to fetch the transcript list>"

\* TranscriptRequest: the validated body, absent languages taking the default
TranscriptRequest(url_or_id, languages, format, preserve_formatting) ==
    [url_or_id |-> url_or_id,
     languages |-> IF languages.given THEN languages.value ELSE <<"ko", "en">>,
     format |-> format,
     preserve_formatting |-> preserve_formatting]

-----------------------------------------------------------------------------
(* get_transcript_by_id, src/main.py:256-287 *)

\* The characters str.strip() strips: blank, tab, newline, carriage return,
\* form feed, and (written as the characters themselves) U+000B, U+001C,
\* U+001D, U+001E, U+001F, U+0085, U+00A0 and U+1680. Python also strips
\* U+2000-U+200A, U+2028, U+2029, U+202F, U+205F and U+3000, which a TLA+
\* string cannot hold.
Whitespace == {" ", "\t", "\n", "\r", "\f",
               "", "", "", "", "", "", " ", " "}

RECURSIVE lstrip(_)
lstrip(s) ==
    IF s # "" /\ CharAt(s, 1) \in Whitespace THEN lstrip(SubSeq(s, 2, Len(s)))
    ELSE s

RECURSIVE rstrip(_)
rstrip(s) ==
    IF s # "" /\ CharAt(s, Len(s)) \in Whitespace
    THEN rstrip(SubSeq(s, 1, Len(s) - 1))
    ELSE s

strip(s) == rstrip(lstrip(s))

\* s.split(","): the fields between the commas, one more than there are commas
RECURSIVE split(_)
split(s) ==
    LET commas == {i \in 1..Len(s) : CharAt(s, i) = ","}
    IN  IF commas = {} THEN <<s>>
        ELSE LET i == CHOOSE i \in commas : \A k \in commas : i <= k
             IN  <<SubSeq(s, 1, i - 1)>> \o split(SubSeq(s, i + 1, Len(s)))

\* language_list without the strip: languages.split(",")
language_list_unstripped(languages) == split(languages)

\* [lang.strip() for lang in languages.split(",")]
language_list(languages) ==
    LET fields == split(languages)
    IN  [i \in 1..Len(fields) |-> strip(fields[i])]

\* the TranscriptRequest get_transcript_by_id builds from its parameters, the
\* languages query parameter defaulting to "ko,en"
get_transcript_by_id(video_id, languages, format, preserve_formatting) ==
    TranscriptRequest(
        video_id,
        Given(language_list(IF languages.given THEN languages.value ELSE "ko,en")),
        format,
        preserve_formatting)

-----------------------------------------------------------------------------
(* get_transcript, src/main.py:213-245 *)

\* the call ytt_api.fetch(video_id, languages=..., preserve_formatting=...)
FetchCall(request) ==
    [op |-> "fetch",
     video_id |-> extract_video_id(request.url_or_id),
     languages |-> request.languages,
     preserve_formatting |-> request.preserve_formatting]

\* TextFormatter joining the texts with blanks
TextFormatter_blanks(fetched) ==
    Join([i \in 1..Len(fetched.snippets) |-> fetched.snippets[i].text], " ")

\* TextFormatter().format_transcript: the snippets' texts joined by newlines
TextFormatter(fetched) ==
    Join([i \in 1..Len(fetched.snippets) |-> fetched.snippets[i].text], "\n")

\* decimal digits of a natural number, and back
Digits == <<"0", "1", "2", "3", "4", "5", "6", "7", "8", "9">>

RECURSIVE NumToStr(_)
NumToStr(n) ==
    IF n < 10 THEN Digits[n + 1]
    ELSE NumToStr(n \div 10) \o Digits[(n % 10) + 1]

RECURSIVE StrToNum(_)
StrToNum(s) ==
    LET d == (CHOOSE k \in 1..10 : Digits[k] = CharAt(s, Len(s))) - 1
    IN  IF Len(s) = 1 THEN d
        ELSE 10 * StrToNum(SubSeq(s, 1, Len(s) - 1)) + d

Quote(s) == "\"" \o s \o "\""
Unquote(s) == SubSeq(s, 2, Len(s) - 1)

\* JSONFormatter().format_transcript: json.dumps of the raw data, as the
\* sequence of the lexemes of the JSON text
JSONObject(snippet) ==
    <<"{", Quote("text"), ":", Quote(snippet.text), ",",
           Quote("start"), ":", NumToStr(snippet.start), ",",
           Quote("duration"), ":", NumToStr(snippet.duration), "}">>

RECURSIVE JSONElements(_)
JSONElements(snippets) ==
    IF snippets = <<>> THEN <<>>
    ELSE IF Len(snippets) = 1 THEN JSONObject(Head(snippets))
    ELSE JSONObject(Head(snippets)) \o <<",">> \o JSONElements(Tail(snippets))

JSONFormatter(fetched) == <<"[">> \o JSONElements(fetched.snippets) \o <<"]">>

\* json.loads on such lexemes: an array of objects, each a dict filled key by
\* key from the lexemes up to its closing brace
LoadsObject(lex) ==
    LET keys == {k \in 2..(Len(lex) - 1) : (k - 2) % 4 = 0}
        val(key) == LET k == CHOOSE k \in keys : lex[k] = Quote(key) IN lex[k + 2]
    IN  [text |-> Unquote(val("text")),
         start |-> StrToNum(val("start")),
         duration |-> StrToNum(val("duration"))]

RECURSIVE LoadsElements(_)
LoadsElements(lex) ==
    IF lex = <<>> THEN <<>>
    ELSE LET closes == {k \in 1..Len(lex) : lex[k] = "}"}
             close == CHOOSE k \in closes : \A m \in closes : k <= m
         IN  <<LoadsObject(SubSeq(lex, 1, close))>>
                \o LoadsElements(SubSeq(lex, close + 2, Len(lex)))

json_loads(lex) == LoadsElements(SubSeq(lex, 2, Len(lex) - 1))

HTTPException(status_code, detail) ==
    [status |-> status_code, body |-> [detail |-> detail]]

\* the response model returned by get_transcript
TranscriptResponse(video_id, language, language_code, is_generated, transcript) ==
    [status |-> 200,
     body |-> [video_id |-> video_id, language |-> language,
               language_code |-> language_code, is_generated |-> is_generated,
               transcript |-> transcript]]

\* get_transcript answering with the locally normalized identifier instead of
\* the video id of the fetch result
get_transcript_local_id(request, ans) ==
    IF ans.raised
    THEN HTTPException(400, FETCH_FAILED \o ": " \o ans.cause)
    ELSE IF ans.format_raised
    THEN HTTPException(400, FETCH_FAILED \o ": " \o ans.format_cause)
    ELSE LET fetched == ans.value
             transcript_text ==
                 IF request.format = "text" THEN TextFormatter(fetched)
                 ELSE json_loads(JSONFormatter(fetched))
         IN  TranscriptResponse(extract_video_id(request.url_or_id),
                                fetched.language, fetched.language_code,
                                fetched.is_generated, transcript_text)

\* get_transcript from the return of ytt_api.fetch on: ans is what fetch did
\* (returned a FetchedTranscript, or raised) and whether the formatter raised
get_transcript(request, ans) ==
    IF ans.raised
    THEN HTTPException(400, FETCH_FAILED \o ": " \o ans.cause)
    ELSE IF ans.format_raised
    THEN HTTPException(400, FETCH_FAILED \o ": " \o ans.format_cause)
    ELSE LET fetched == ans.value
             transcript_text ==
                 IF request.format = "text" THEN TextFormatter(fetched)
                 ELSE json_loads(JSONFormatter(fetched))
         IN  TranscriptResponse(fetched.video_id, fetched.language,
                                fetched.language_code, fetched.is_generated,
                                transcript_text)

-----------------------------------------------------------------------------
(* list_available_transcripts, src/main.py:341-362 *)

\* the call ytt_api.list(video_id)
ListCall(video_id) == [op |-> "list", video_id |-> extract_video_id(video_id)]

\* TrackEntry losing the translation languages
TrackEntry_untranslated(transcript) ==
    [language |-> transcript.language,
     language_code |-> transcript.language_code,
     is_generated |-> transcript.is_generated,
     is_translatable |-> transcript.is_translatable,
     translation_languages |-> <<>>]

\* the dict appended for one transcript of the list
TrackEntry(transcript) ==
    [language |-> transcript.language,
     language_code |-> transcript.language_code,
     is_generated |-> transcript.is_generated,
     is_translatable |-> transcript.is_translatable,
     translation_languages |-> transcript.translation_languages]

\* list_available_transcripts from the return of ytt_api.list on: what the
\* handler returns or raises
list_available_transcripts(video_id, ans) ==
    IF ans.raised
    THEN HTTPException(400, LIST_FAILED \o ": " \o ans.cause)
    ELSE LET transcript_list == ans.value
         IN  [status |-> 200,
              body |-> [video_id |-> extract_video_id(video_id),
                        available_transcripts |->
                            [i \in 1..Len(transcript_list) |->
                                TrackEntry(transcript_list[i])]]]

\* The answer of the route GET /list/{video_id} to what the handler returned:
\* the returned dict is validated against response_model=TranscriptListResponse
\* after the handler, outside its try. TranscriptInfo.translation_languages is
\* List[str]: an element that is not a str fails the validation and the
\* request is answered 500; otherwise the body goes out with the codes.
InternalServerError == [status |-> 500, body |-> [text |-> "Internal Server Error"]]

TranscriptInfo(entry) ==
    [language |-> entry.language,
     language_code |-> entry.language_code,
     is_generated |-> entry.is_generated,
     is_translatable |-> entry.is_translatable,
     translation_languages |->
        [i \in 1..Len(entry.translation_languages) |->
            entry.translation_languages[i].value]]

TranscriptListResponse(response) ==
    IF response.status # 200 THEN response
    ELSE LET entries == response.body.available_transcripts
         IN  IF \E i \in 1..Len(entries) :
                    \E k \in 1..Len(entries[i].translation_languages) :
                        entries[i].translation_languages[k].type # "str"
             THEN InternalServerError
             ELSE [status |-> 200,
                   body |-> [video_id |-> response.body.video_id,
                             available_transcripts |->
                                [i \in 1..Len(entries) |-> TranscriptInfo(entries[i])]]]

-----------------------------------------------------------------------------
(* What the callers send and what the library answers *)

VIDEO == "dQw4w9WgXcQ"

\* url_or_id of a POST body: any string, the empty one included (the field is
\* declared str, with no length constraint)
UrlOrIds == {"", VIDEO, "https://www.youtube.com/watch?v=" \o VIDEO,
             "https://youtu.be/" \o VIDEO \o "?t=30"}

\* The routes "/transcript/{video_id}" and "/list/{video_id}" match a path whose
\* last segment is non-empty and holds no "/": any other path is answered by
\* the router (404) and the handler is not called.
RouteMatches(video_id) ==
    /\ video_id # ""
    /\ \A i \in 1..Len(video_id) : CharAt(video_id, i) # "/"

\* the video_id parameter of the two GET handlers: of the strings callers
\* send, those the routes hand to the handlers
PathIds == {v \in UrlOrIds \cup {"a-B_1", "youtu.be?v=x"} : RouteMatches(v)}

Formats == {"json", "text"}

\* language preference lists of a POST body
LanguageLists == {<<"ko", "en">>, <<"en">>, <<"xx">>}

\* language codes a GET caller writes into its languages parameter, and what
\* it may put around each of them: nothing, a blank, a vertical tab (U+000B)
CodeLists == {<<"ko", "en">>, <<"en">>, <<"">>}
Pads == {"", " ", ""}

\* the languages query string for the codes, each padded on both sides
LanguagesParam(codes, pad) ==
    Join([i \in 1..Len(codes) |-> pad \o codes[i] \o pad], ",")

PostBodies ==
    [endpoint : {"POST /transcript"}, url_or_id : UrlOrIds,
     languages : {Absent} \cup {Given(l) : l \in LanguageLists},
     format : Formats, preserve_formatting : BOOLEAN]

\* codes records the language codes the languages parameter was written from
GetQueries ==
    [endpoint : {"GET /transcript/{video_id}"}, video_id : PathIds,
     languages : {Absent}, codes : {Absent},
     format : Formats, preserve_formatting : BOOLEAN]
    \cup
    {[endpoint |-> "GET /transcript/{video_id}", video_id |-> v,
      languages |-> Given(LanguagesParam(c, p)), codes |-> Given(c),
      format |-> f, preserve_formatting |-> b] :
        v \in PathIds, c \in CodeLists, p \in Pads, f \in Formats, b \in BOOLEAN}

ListQueries == [endpoint : {"GET /list/{video_id}"}, video_id : PathIds]

\* descriptions str(e) of what the library raises
Causes == {"no transcript found", ""}

\* start and duration are seconds; the model counts them in whole units
Snippets == {[text |-> "a", start |-> 0, duration |-> 1],
             [text |-> "b", start |-> 1, duration |-> 12]}

\* language, language_code, is_generated of the track fetch resolved
TrackMeta == {<<"Korean", "ko", FALSE>>, <<"English (auto-generated)", "en", TRUE>>}

\* what ytt_api.fetch may answer to the call c: it raises, or it returns a
\* FetchedTranscript whose video_id is the one passed or another form of it,
\* and then the formatter returns or raises
FetchAnswers(c) ==
    IF c.op # "fetch" THEN {} ELSE
    {[answered |-> TRUE, raised |-> TRUE, cause |-> e] : e \in Causes}
    \cup
    {[answered |-> TRUE, raised |-> FALSE,
      format_raised |-> FALSE, format_cause |-> "",
      value |-> [video_id |-> v, language |-> m[1], language_code |-> m[2],
                 is_generated |-> m[3], snippets |-> sn]] :
        v \in {c.video_id, "resolved:" \o c.video_id}, m \in TrackMeta,
        sn \in SeqsUpTo(Snippets, MaxSegments)}
    \cup
    {[answered |-> TRUE, raised |-> FALSE,
      format_raised |-> TRUE, format_cause |-> "bad snippet",
      value |-> [video_id |-> c.video_id, language |-> m[1],
                 language_code |-> m[2], is_generated |-> m[3],
                 snippets |-> <<>>]] : m \in TrackMeta}

\* the Transcript objects a TranscriptList iterates over: the five attributes
\* the handler reads, and the video id the object also carries. language and
\* language_code are strings and the two flags are booleans;
\* translation_languages holds language codes or the library's
\* translation-language objects
Tracks ==
    {[video_id |-> VIDEO, language |-> "Korean", language_code |-> "ko",
      is_generated |-> FALSE, is_translatable |-> TRUE,
      translation_languages |-> <<TranslationLanguage("English", "en")>>],
     [video_id |-> VIDEO, language |-> "English (auto-generated)",
      language_code |-> "en", is_generated |-> TRUE, is_translatable |-> FALSE,
      translation_languages |-> <<>>],
     [video_id |-> VIDEO, language |-> "Japanese", language_code |-> "ja",
      is_generated |-> FALSE, is_translatable |-> TRUE,
      translation_languages |-> <<PyStr("en"), PyStr("ko")>>]}

ListAnswers ==
    {[answered |-> TRUE, raised |-> TRUE, cause |-> e] : e \in Causes}
    \cup {[answered |-> TRUE, raised |-> FALSE, value |-> ts] :
            ts \in SeqsUpTo(Tracks, MaxTracks)}

\* the small sets the concurrent specification draws from
ConcPostBodies ==
    {b \in PostBodies : b.url_or_id = VIDEO /\ ~b.languages.given
                        /\ b.format = "text" /\ ~b.preserve_formatting}
ConcGetQueries ==
    {q \in GetQueries : q.video_id = VIDEO /\ ~q.languages.given
                        /\ q.format = "json" /\ ~q.preserve_formatting}
ConcListQueries == {q \in ListQueries : q.video_id = VIDEO}
ConcFetchAnswers(c) ==
    {a \in FetchAnswers(c) :
        \/ a.raised /\ a.cause # ""
        \/ ~a.raised /\ ~a.format_raised /\ a.value.video_id = c.video_id
           /\ a.value.language_code = "ko" /\ Len(a.value.snippets) = MaxSegments
           /\ \A i \in 1..Len(a.value.snippets) : \A j \in 1..Len(a.value.snippets) : 
                a.value.snippets[i] = a.value.snippets[j]}
ConcListAnswers ==
    {a \in ListAnswers : IF a.raised THEN a.cause # "" ELSE Len(a.value) = 1}

-----------------------------------------------------------------------------
(* The handlers as steps *)

\* the library calls made so far for a request, after one more
Invoked(n) == n + 1

\* Respond with coalescing: the response is also given to every request
\* waiting in the same library call on the same video
Respond_coalesced(r, response) ==
    [q \in Req |->
        IF q = r \/ (pc[q] = "calling" /\ call[q] = call[r])
        THEN Append(resp[q], response) ELSE resp[q]]

\* the responses of request r after the handler returned or raised response
Respond(r, response) == [resp EXCEPT ![r] = Append(@, response)]

\* the handler's TranscriptRequest for the request (POST: the validated body;
\* GET: the one get_transcript_by_id builds)
RequestOf(q) ==
    IF q.endpoint = "POST /transcript"
    THEN TranscriptRequest(q.url_or_id, q.languages, q.format,
                           q.preserve_formatting)
    ELSE get_transcript_by_id(q.video_id, q.languages, q.format,
                              q.preserve_formatting)

\* where a handler is after the except clause: with a retry after a failure
AfterAnswer_retry(ans) == IF ans.raised THEN "idle" ELSE "done"

\* where a handler is after the library answered: it has returned its response
\* or raised its HTTPException, and is done either way
AfterAnswer(ans) == "done"

\* POST /transcript arrives: get_transcript runs up to the call of fetch
PostTranscript(r, body) ==
    /\ pc[r] = "idle"
    /\ pc' = [pc EXCEPT ![r] = "calling"]
    /\ req' = [req EXCEPT ![r] = body]
    /\ call' = [call EXCEPT ![r] = FetchCall(RequestOf(body))]
    /\ ncalls' = [ncalls EXCEPT ![r] = Invoked(@)]
    /\ UNCHANGED <<arg, shape, ret, answer, resp>>

\* GET /transcript/{video_id} arrives: get_transcript_by_id builds the
\* request and get_transcript runs up to the call of fetch
GetTranscriptById(r, query) ==
    /\ pc[r] = "idle"
    /\ pc' = [pc EXCEPT ![r] = "calling"]
    /\ req' = [req EXCEPT ![r] = query]
    /\ call' = [call EXCEPT ![r] = FetchCall(RequestOf(query))]
    /\ ncalls' = [ncalls EXCEPT ![r] = Invoked(@)]
    /\ UNCHANGED <<arg, shape, ret, answer, resp>>

\* GET /list/{video_id} arrives: the handler runs up to the call of list
ListAvailableTranscripts(r, query) ==
    /\ pc[r] = "idle"
    /\ pc' = [pc EXCEPT ![r] = "calling"]
    /\ req' = [req EXCEPT ![r] = query]
    /\ call' = [call EXCEPT ![r] = ListCall(query.video_id)]
    /\ ncalls' = [ncalls EXCEPT ![r] = Invoked(@)]
    /\ UNCHANGED <<arg, shape, ret, answer, resp>>

\* fetch returns or raises: get_transcript runs to its end
FetchCompletes(r, ans) ==
    /\ pc[r] = "calling"
    /\ call[r].op = "fetch"
    /\ pc' = [pc EXCEPT ![r] = AfterAnswer(ans)]
    /\ answer' = [answer EXCEPT ![r] = ans]
    /\ resp' = Respond(r, get_transcript(RequestOf(req[r]), ans))
    /\ UNCHANGED <<arg, shape, ret, req, call, ncalls>>

\* list returns or raises: list_available_transcripts runs to its end and the
\* route validates what it returned
ListCompletes(r, ans) ==
    /\ pc[r] = "calling"
    /\ call[r].op = "list"
    /\ pc' = [pc EXCEPT ![r] = AfterAnswer(ans)]
    /\ answer' = [answer EXCEPT ![r] = ans]
    /\ resp' = Respond(r, TranscriptListResponse(
                            list_available_transcripts(req[r].video_id, ans)))
    /\ UNCHANGED <<arg, shape, ret, req, call, ncalls>>

\* extract_video_id is applied to the input
ExtractVideoId ==
    /\ ~ret.returned
    /\ ret' = [returned |-> TRUE, value |-> extract_video_id(arg)]
    /\ UNCHANGED <<arg, shape, pc, req, call, ncalls, answer, resp>>

-----------------------------------------------------------------------------
(* Specifications *)

InitRequests ==
    /\ pc = [r \in Req |-> "idle"]
    /\ req = [r \in Req |-> NoReq]
    /\ call = [r \in Req |-> NoCall]
    /\ ncalls = [r \in Req |-> 0]
    /\ answer = [r \in Req |-> NoAnswer]
    /\ resp = [r \in Req |-> <<>>]

\* Spec: NumReq requests served concurrently (one per worker), few inputs
Init ==
    /\ arg = "" /\ shape = [kind |-> "free", id |-> ""] /\ ret = NotReturned
    /\ InitRequests

Next ==
    \E r \in Req :
        \/ \E b \in ConcPostBodies : PostTranscript(r, b)
        \/ \E q \in ConcGetQueries : GetTranscriptById(r, q)
        \/ \E q \in ConcListQueries : ListAvailableTranscripts(r, q)
        \/ \E a \in ConcFetchAnswers(call[r]) : FetchCompletes(r, a)
        \/ \E a \in ConcListAnswers : ListCompletes(r, a)

Spec == Init /\ [][Next]_vars

\* SpecHandlers: one request, all the inputs and answers
NextHandlers ==
    \/ \E b \in PostBodies : PostTranscript(1, b)
    \/ \E q \in GetQueries : GetTranscriptById(1, q)
    \/ \E q \in ListQueries : ListAvailableTranscripts(1, q)
    \/ \E a \in FetchAnswers(call[1]) : FetchCompletes(1, a)
    \/ \E a \in ListAnswers : ListCompletes(1, a)

SpecHandlers == Init /\ [][NextHandlers]_vars

\* SpecExtract: extract_video_id applied to one input
InitExtract ==
    /\ \E in \in ExtractInputs : arg = in[1] /\ shape = in[2]
    /\ ret = NotReturned
    /\ InitRequests

NextExtract == ExtractVideoId

SpecExtract == InitExtract /\ [][NextExtract]_vars

-----------------------------------------------------------------------------
(* Claims *)

FetchEndpoints == {"POST /transcript", "GET /transcript/{video_id}"}

\* the fixed phrase of the endpoint's failure detail
PrefixOf(q) == IF q.endpoint \in FetchEndpoints THEN FETCH_FAILED ELSE LIST_FAILED

\* the library call, or the formatting step, failed
Failed(a) ==
    /\ a.answered
    /\ (a.raised \/ ("format_raised" \in DOMAIN a /\ a.format_raised))
CauseOf(a) == IF a.raised THEN a.cause ELSE a.format_cause

\* the fetch and the formatting both succeeded
Fetched(r) ==
    /\ req[r].endpoint \in FetchEndpoints
    /\ answer[r].answered /\ ~Failed(answer[r])

\* the listing was answered with success
Listed(r) ==
    /\ req[r].endpoint = "GET /list/{video_id}"
    /\ answer[r].answered /\ ~answer[r].raised
    /\ Len(resp[r]) = 1 /\ resp[r][1].status = 200

\* C1: whenever the fetch, the list or the formatting step of a request
\* fails, the request is answered once, with status 400 and the detail
\* "<the endpoint's phrase>: <the description of the cause>"; and no request
\* of these endpoints is answered with another status than 200 and 400.
C1_FailureIs400 ==
    \A r \in Req :
        /\ Failed(answer[r]) =>
            resp[r] = <<[status |-> 400,
                         body |-> [detail |-> PrefixOf(req[r]) \o ": "
                                                \o CauseOf(answer[r])]]>>
        /\ \A k \in 1..Len(resp[r]) : resp[r][k].status \in {200, 400}

\* C2: for a watch URL carrying v=ID at any position of its query string, a
\* short link or an embed link, extract_video_id returns exactly ID.
C2_UrlShapesGiveTheId ==
    (ret.returned /\ shape.kind \in {"watch", "short", "embed"})
        => ret.value = shape.id

\* C3: for an input neither pattern matches anywhere, extract_video_id
\* returns the input unchanged.
C3_IdentityFallback ==
    (ret.returned /\ ~Search1(arg).matched /\ ~Search2(arg).matched)
        => ret.value = arg

C3_Witness ==
    /\ ret.returned
    /\ ~Search1(arg).matched /\ ~Search2(arg).matched
    /\ arg = "youtu.be/" \o "?" \o "x"

\* C4: on a successful fetch the response's video_id, language, language_code
\* and is_generated are those of the fetch result.
C4_MetadataFromFetch ==
    \A r \in Req :
        Fetched(r) =>
            /\ Len(resp[r]) = 1
            /\ resp[r][1].status = 200
            /\ resp[r][1].body.video_id = answer[r].value.video_id
            /\ resp[r][1].body.language = answer[r].value.language
            /\ resp[r][1].body.language_code = answer[r].value.language_code
            /\ resp[r][1].body.is_generated = answer[r].value.is_generated

C4_Witness ==
    \E r \in Req :
        /\ Fetched(r)
        /\ req[r].endpoint = "POST /transcript"
        /\ answer[r].value.video_id # req[r].url_or_id
        /\ answer[r].value.video_id # call[r].video_id
        /\ Len(resp[r]) = 1

\* the texts of the segments, each but the last followed by a newline
RECURSIVE TextsInOrder(_)
TextsInOrder(snippets) ==
    IF snippets = <<>> THEN ""
    ELSE LET n == Len(snippets)
         IN  TextsInOrder(SubSeq(snippets, 1, n - 1))
                \o (IF n > 1 THEN "\n" ELSE "") \o snippets[n].text

\* C5: on a successful fetch, with format text the transcript is the segments'
\* texts joined by newlines in the order fetched; with format json it is the
\* sequence of the segments' {text, start, duration} records in that order.
C5_TranscriptBody ==
    \A r \in Req :
        Fetched(r) =>
            LET sn == answer[r].value.snippets
                transcript == resp[r][1].body.transcript
            IN  IF req[r].format = "text"
                THEN transcript = TextsInOrder(sn)
                ELSE /\ Len(transcript) = Len(sn)
                     /\ \A i \in 1..Len(sn) :
                            /\ DOMAIN transcript[i] = {"text", "start", "duration"}
                            /\ transcript[i].text = sn[i].text
                            /\ transcript[i].start = sn[i].start
                            /\ transcript[i].duration = sn[i].duration

C5_Witness ==
    \E r \in Req :
        /\ Fetched(r)
        /\ req[r].format = "text"
        /\ Len(answer[r].value.snippets) = 2
        /\ answer[r].value.snippets[1].text = "a"
        /\ answer[r].value.snippets[2].text = "b"
        /\ resp[r][1].body.transcript = "a\nb"

\* C6: on a successful listing, available_transcripts has one entry per
\* enumerated track, in the enumeration's order, with the track's five
\* attributes, and video_id is extract_video_id of the path parameter.
C6_ListBody ==
    \A r \in Req :
        Listed(r) =>
            LET tracks == answer[r].value
                body == resp[r][1].body
            IN  /\ body.video_id = extract_video_id(req[r].video_id)
                /\ Len(body.available_transcripts) = Len(tracks)
                /\ \A i \in 1..Len(tracks) :
                    LET e == body.available_transcripts[i]
                        codes == tracks[i].translation_languages
                    IN  /\ e.language = tracks[i].language
                        /\ e.language_code = tracks[i].language_code
                        /\ e.is_generated = tracks[i].is_generated
                        /\ e.is_translatable = tracks[i].is_translatable
                        /\ Len(e.translation_languages) = Len(codes)
                        /\ \A k \in 1..Len(codes) :
                            e.translation_languages[k] = codes[k].value

C6_Witness ==
    \E r \in Req :
        /\ Listed(r)
        /\ Len(answer[r].value) = 2
        /\ answer[r].value[1].language_code = "en"
        /\ answer[r].value[2].language_code = "ja"
        /\ Len(resp[r][1].body.available_transcripts) = 2
        /\ resp[r][1].body.available_transcripts[2].translation_languages
                = <<"en", "ko">>
        /\ resp[r][1].body.video_id = "youtu.be?v=x"

\* what the handler of request q calls the library with, and what it answers
\* when the library answered a
CallOf(q) ==
    IF q.endpoint \in FetchEndpoints THEN FetchCall(RequestOf(q))
    ELSE ListCall(q.video_id)

ResponseOf(q, a) ==
    IF q.endpoint \in FetchEndpoints THEN get_transcript(RequestOf(q), a)
    ELSE TranscriptListResponse(list_available_transcripts(q.video_id, a))

\* everything kept for request r
Local(r) == <<pc[r], req[r], call[r], ncalls[r], answer[r], resp[r]>>

\* each request made its own library call, and its response is determined by
\* its own input and the answer it got
OwnCallOwnResponse ==
    \A r \in Req :
        /\ ncalls[r] = (IF pc[r] = "idle" THEN 0 ELSE 1)
        /\ pc[r] # "idle" => call[r] = CallOf(req[r])
        /\ resp[r] = (IF pc[r] = "done"
                      THEN <<ResponseOf(req[r], answer[r])>> ELSE <<>>)

\* a step of one request leaves every other request as it was
StepsAreLocal ==
    \A r \in Req : \A q \in Req \ {r} :
        Local(r)' # Local(r) => Local(q)' = Local(q)

\* C7: under every interleaving each request makes its own library call and
\* is answered from its own input and its own answer alone, and no step of a
\* request changes anything of another request.
C7_Independent == []OwnCallOwnResponse /\ [][StepsAreLocal]_vars

C7_Witness ==
    \E r \in Req : \E q \in Req \ {r} :
        /\ req[r].endpoint = "POST /transcript"
        /\ req[q].endpoint = "GET /transcript/{video_id}"
        /\ call[r].video_id = call[q].video_id
        /\ pc[r] = "done" /\ pc[q] = "done"
        /\ answer[r].raised /\ ~answer[q].raised
        /\ resp[q][1].status = 200

\* C8: a request makes at most one library call and gets at most one
\* response; once the library has answered it has made exactly one call and
\* has exactly one response, which is the failure response when the call
\* failed.
C8_NoRetry ==
    \A r \in Req :
        /\ ncalls[r] <= 1
        /\ Len(resp[r]) <= 1
        /\ answer[r].answered =>
            /\ ncalls[r] = 1
            /\ Len(resp[r]) = 1
            /\ answer[r].raised => resp[r][1].status = 400

C8_Witness ==
    \E r \in Req :
        /\ answer[r].answered /\ answer[r].raised
        /\ pc[r] = "done"
        /\ ncalls[r] = 1
        /\ Len(resp[r]) = 1

\* C9: the identifier passed to the library's fetch or list is never empty.
C9_IdentifierNonEmpty ==
    \A r \in Req : call[r].op # "none" => call[r].video_id # ""

\* the POST body that corresponds to the GET query q: url_or_id is the path
\* parameter, languages are the codes the query string was written from
\* (absent when the parameter is absent), format and flag are the same
PostBodyFor(q) ==
    TranscriptRequest(q.video_id, q.codes, q.format, q.preserve_formatting)

\* C10: GET /transcript/{video_id} calls the library as POST /transcript does
\* for the corresponding body, and answers as it does for the same answer of
\* the library.
C10_GetEqualsPost ==
    \A r \in Req :
        (req[r].endpoint = "GET /transcript/{video_id}") =>
            /\ call[r] = FetchCall(PostBodyFor(req[r]))
            /\ answer[r].answered =>
                resp[r] = <<get_transcript(PostBodyFor(req[r]), answer[r])>>

C10_Witness ==
    \E r \in Req :
        /\ req[r].endpoint = "GET /transcript/{video_id}"
        /\ req[r].languages.given
        /\ req[r].languages.value = " ko , en "
        /\ answer[r].answered /\ ~Failed(answer[r])
        /\ call[r].languages = <<"ko", "en">>
        /\ resp[r][1].status = 200

====
